---- MODULE Spec2Model ----
(***************************************************************************)
(* Model of dashboard.py: one Streamlit script that is executed top to     *)
(* bottom on every user interaction.  The state is the two sidebar widget  *)
(* values (owned by the framework), the process-wide numpy random source,  *)
(* the script's position, its local variables and the page it has drawn.   *)
(***************************************************************************)
EXTENDS Integers, Sequences, FiniteSets, TLC

VARIABLES
    widget_year,     \* value held by the "Fiscal Year" selectbox
    widget_scope,    \* value held by the "Scope" selectbox
    rng,             \* position of the process-wide random source in its stream
    pc,              \* the statement group the script is about to execute
    selected_year,   \* script variable, line 74
    selected_scope,  \* script variable, line 75
    val_ghg,         \* script variable, line 97
    val_energy,      \* script variable, line 98
    df_trend,        \* script variable, line 120
    scores,          \* script variable, line 166
    page,            \* elements drawn so far in this pass: name -> data
    rng0,            \* history: position of the random source when the pass began
    first,           \* history: this pass is the first of the process
    changed,         \* history: some interaction changed a widget value
    ref              \* history: one earlier completed pass, kept for comparison

vars == << widget_year, widget_scope, rng, pc, selected_year, selected_scope,
           val_ghg, val_energy, df_trend, scores, page, rng0, first, changed, ref >>

-----------------------------------------------------------------------------
(* Bounds of the model *)

\* length of the cycle of the abstract random stream
RngPeriod == 5

-----------------------------------------------------------------------------
(* Literals of the script *)

YearOptions == << 2025, 2024, 2023 >>
ScopeOptions == << "Global", "North America", "EMEA", "APAC" >>

AltYear == 2024
GhgAlt == 54000
GhgDefault == 49500
EnergyAlt == 120
EnergyDefault == 115
CompliancePct == 88
SupplierScore == 74

TrendPeriods == 12
LinspaceStart == 6000
LinspaceStop == 4500
LinspaceNum == 12
NoiseLoc == 0
NoiseScale == 100
NoiseSize == 12

ScoreLoc == 72
ScoreScale == 10
\* the sample size with a digit dropped
ScoreSize_typo == 2 * 10

ScoreSize == 200

\* the gauge value given per mille against the 0..100 axis
GaugeValue_permille == 10 * 85

GaugeValue == 85
GaugeAxisMax == 100

EnergyX == << "Facility A", "Facility B", "Facility C" >>
EnergyY == << 220, 180, 110 >>
WaterX == << "Region X", "Region Y", "Region Z" >>
WaterY == << 50, 40, 25 >>
MineralsLabels == << "Compliant", "Non-Compliant" >>
MineralsValues == << 98, 2 >>
MineralsAnnotation == << << 9, 8 >>, "%" >>
IncCountX == << "Q1", "Q2", "Q3", "Q4" >>

\* the incident counts with the last quarter missing
IncCountY_short == << 4, 2, 5 >>

IncCountY == << 4, 2, 5, 1 >>
IncHoursX == << "Q1", "Q2", "Q3", "Q4" >>
IncHoursY == << 24, 12, 18, 8 >>
SankeyLabel == << "Sourcing", "Manufacturing", "Distribution", "Use Phase",
                  "Recycling", "Landfill" >>
\* node indices are 0-based, as in the script
SankeySource == << 0, 1, 1, 2, 3, 3 >>
SankeyTarget == << 1, 2, 5, 3, 4, 5 >>
\* Manufacturing sending more to Landfill than it has left
SankeyValue_leak == << 100, 85, 25, 85, 60, 25 >>

SankeyValue == << 100, 85, 15, 85, 60, 25 >>

-----------------------------------------------------------------------------
(* Pure helpers *)

Range(s) == { s[i] : i \in DOMAIN s }

RECURSIVE SumSeq(_)
SumSeq(s) == IF s = << >> THEN 0 ELSE Head(s) + SumSeq(Tail(s))

\* str(n) for n >= 0: the decimal digits, most significant first
RECURSIVE Digits(_)
Digits(n) == IF n < 10 THEN << n >> ELSE Append(Digits(n \div 10), n % 10)

\* int(s) of a digit string
RECURSIVE ParseInt(_)
ParseInt(d) ==
    IF d = << >> THEN 0
    ELSE 10 * ParseInt(SubSeq(d, 1, Len(d) - 1)) + d[Len(d)]

\* f"{n:,}": the digits in groups of three, separated by commas; a group is
\* its digit string, so that "54,000" is << <<5,4>>, <<0,0,0>> >>
RECURSIVE FormatThousands(_)
FormatThousands(n) ==
    IF n < 1000 THEN << Digits(n) >>
    ELSE LET r == n % 1000
         IN  Append(FormatThousands(n \div 1000),
                    << r \div 100, (r \div 10) % 10, r % 10 >>)

\* reading a comma-grouped number back
RECURSIVE ParseThousands(_)
ParseThousands(g) ==
    IF g = << >> THEN 0
    ELSE 1000 * ParseThousands(SubSeq(g, 1, Len(g) - 1)) + ParseInt(g[Len(g)])

IsLeap(y) == (y % 4 = 0 /\ y % 100 # 0) \/ y % 400 = 0

DaysInMonth(y, m) ==
    IF m = 2 THEN (IF IsLeap(y) THEN 29 ELSE 28)
    ELSE IF m \in {4, 6, 9, 11} THEN 30 ELSE 31

\* pd.date_range with the last period left out
DateRange_exclusive(year, periods) ==
    [ i \in 1..(periods - 1) |->
        LET y == year + ((i - 1) \div 12)
            m == ((i - 1) % 12) + 1
        IN  << y, m, DaysInMonth(y, m) >> ]

\* pd.date_range(start=f"{year}-01-01", periods=n, freq='M'): n month ends
DateRange(year, periods) ==
    [ i \in 1..periods |->
        LET y == year + ((i - 1) \div 12)
            m == ((i - 1) % 12) + 1
        IN  << y, m, DaysInMonth(y, m) >> ]

\* np.linspace(start, stop, num); the step (stop-start)/(num-1) is not an
\* integer, so every value is kept as its numerator over Denominator(num)
Denominator(num) == IF num > 1 THEN num - 1 ELSE 1

Linspace(start, stop, num) ==
    [ i \in 1..num |-> start * Denominator(num) + (i - 1) * (stop - start) ]

\* The standard-normal deviate the random source yields at stream position p,
\* quantised to an integer in -2..2
StdNormal(p) == ((p * p) % 5) - 2

\* np.random.normal(loc, scale, size) drawn from stream position pos
Normal(loc, scale, size, pos) ==
    [ i \in 1..size |-> loc + scale * StdNormal((pos + i - 1) % RngPeriod) ]

\* the random source after size draws
Advance(pos, size) == (pos + size) % RngPeriod

\* st.metric(label, value, delta, delta_color)
Metric(label, value, delta, delta_color) ==
    [ label |-> label, value |-> value, delta |-> delta, delta_color |-> delta_color ]

\* the alternate value given to the wrong year
ValGhg_wrongyear(year) == IF year = YearOptions[1] THEN GhgAlt ELSE GhgDefault

\* the emissions total jittered by the process-wide random source
ValGhg_sampled(year) ==
    (IF year = AltYear THEN GhgAlt ELSE GhgDefault) + NoiseScale * StdNormal(rng)

ValGhg(year) == IF year = AltYear THEN GhgAlt ELSE GhgDefault

\* the alternate and the default value swapped
ValEnergy_swapped(year) == IF year = AltYear THEN EnergyDefault ELSE EnergyAlt

\* the energy intensity narrowed by the selected scope
ValEnergy_scoped(year) ==
    IF selected_scope = ScopeOptions[1]
    THEN (IF year = AltYear THEN EnergyAlt ELSE EnergyDefault)
    ELSE (IF year = AltYear THEN EnergyAlt ELSE EnergyDefault) \div 4

ValEnergy(year) == IF year = AltYear THEN EnergyAlt ELSE EnergyDefault

\* the five cards of the executive summary ("m3" stands for the script's
\* "m" with a superscript 3)
Cards(ghg, energy) ==
    << Metric("Total GHG Emissions", << FormatThousands(ghg), " tCO2e" >>, "-8.5%", "normal"),
       Metric("Energy Intensity", << Digits(energy), " kWh/Unit" >>, "-4.2%", "normal"),
       Metric("Water Withdrawal", << "1.5M m3" >>, "+1.2%", "inverse"),
       Metric("ESRS Compliance", << Digits(CompliancePct), "%" >>, "+12%", "normal"),
       Metric("Supplier ESG Score", << Digits(SupplierScore), "/100" >>, "+2.5", "normal") >>

\* the share of the pie a slice takes, in percent
PieShare(values, i) == (100 * values[i]) \div SumSeq(values)

-----------------------------------------------------------------------------
(* The script *)

\* the trend chart drawn before the trend is generated
Order_swapped ==
    << "select_year", "select_scope", "header", "gen_kpi", "cards",
       "fig_ghg", "gen_trend", "fig_energy", "fig_water",
       "gen_scores", "fig_dist", "fig_minerals", "fig_gauge", "fig_inc",
       "fig_sankey", "done" >>

\* the statement groups of the script in source order
Order ==
    << "select_year", "select_scope", "header", "gen_kpi", "cards",
       "gen_trend", "fig_ghg", "fig_energy", "fig_water",
       "gen_scores", "fig_dist", "fig_minerals", "fig_gauge", "fig_inc",
       "fig_sankey", "done" >>

\* 0 for a position that is no statement group (the script has raised)
Index(step) ==
    IF step \in Range(Order) THEN CHOOSE i \in DOMAIN Order : Order[i] = step ELSE 0

After(step) == Order[Index(step) + 1]

EmptyPage == [ n \in {} |-> 0 ]

NoFrame == [ Date |-> << >>, Emissions |-> << >> ]

NoRef == [ set |-> FALSE, year |-> 0, scope |-> "", rng0 |-> 0, first |-> FALSE,
           page |-> EmptyPage ]

Draw(name, data) == page' = (name :> data) @@ page

Init ==
    /\ widget_year = YearOptions[1]
    /\ widget_scope = ScopeOptions[1]
    /\ rng \in 0..(RngPeriod - 1)
    /\ pc = Order[1]
    /\ selected_year = 0
    /\ selected_scope = ""
    /\ val_ghg = 0
    /\ val_energy = 0
    /\ df_trend = NoFrame
    /\ scores = << >>
    /\ page = EmptyPage
    /\ rng0 = rng
    /\ first = TRUE
    /\ changed = FALSE
    /\ ref = NoRef

SelectYear ==
    /\ pc = "select_year"
    /\ selected_year' = widget_year
    /\ pc' = After("select_year")
    /\ UNCHANGED << widget_year, widget_scope, rng, selected_scope, val_ghg, val_energy,
                    df_trend, scores, page, rng0, first, changed, ref >>

SelectScope ==
    /\ pc = "select_scope"
    /\ selected_scope' = widget_scope
    /\ pc' = After("select_scope")
    /\ UNCHANGED << widget_year, widget_scope, rng, selected_year, val_ghg, val_energy,
                    df_trend, scores, page, rng0, first, changed, ref >>

Header ==
    /\ pc = "header"
    /\ Draw("header", [ scope |-> selected_scope, year |-> Digits(selected_year) ])
    /\ pc' = After("header")
    /\ UNCHANGED << widget_year, widget_scope, rng, selected_year, selected_scope, val_ghg,
                    val_energy, df_trend, scores, rng0, first, changed, ref >>

GenKpi ==
    /\ pc = "gen_kpi"
    /\ val_ghg' = ValGhg(selected_year)
    /\ val_energy' = ValEnergy(selected_year)
    /\ pc' = After("gen_kpi")
    /\ UNCHANGED << widget_year, widget_scope, rng, selected_year, selected_scope,
                    df_trend, scores, page, rng0, first, changed, ref >>

RenderCards ==
    /\ pc = "cards"
    /\ Draw("cards", Cards(val_ghg, val_energy))
    /\ pc' = After("cards")
    /\ UNCHANGED << widget_year, widget_scope, rng, selected_year, selected_scope, val_ghg,
                    val_energy, df_trend, scores, rng0, first, changed, ref >>

\* lines 118-120; numpy refuses to add arrays of different lengths and pandas
\* refuses columns of different lengths
GenTrend ==
    /\ pc = "gen_trend"
    /\ LET dates == DateRange(selected_year, TrendPeriods)
           ramp == Linspace(LinspaceStart, LinspaceStop, LinspaceNum)
           noise == Normal(NoiseLoc, NoiseScale, NoiseSize, rng)
           trend_vals == [ i \in 1..LinspaceNum |->
                             ramp[i] + Denominator(LinspaceNum) * noise[i] ]
       IN  /\ rng' = Advance(rng, NoiseSize)
           /\ IF LinspaceNum = NoiseSize /\ Len(dates) = Len(trend_vals)
              THEN /\ df_trend' = [ Date |-> dates, Emissions |-> trend_vals ]
                   /\ pc' = After("gen_trend")
              ELSE /\ df_trend' = df_trend
                   /\ pc' = "error"
    /\ UNCHANGED << widget_year, widget_scope, selected_year, selected_scope, val_ghg,
                    val_energy, scores, page, rng0, first, changed, ref >>

\* px.area(df_trend, x='Date', y='Emissions')
RenderGhg ==
    /\ pc = "fig_ghg"
    /\ Draw("fig_ghg", [ x |-> df_trend.Date, y |-> df_trend.Emissions ])
    /\ pc' = After("fig_ghg")
    /\ UNCHANGED << widget_year, widget_scope, rng, selected_year, selected_scope, val_ghg,
                    val_energy, df_trend, scores, rng0, first, changed, ref >>

\* px.bar(x=..., y=...) raises when x and y differ in length
RenderBar(name, x, y) ==
    /\ pc = name
    /\ IF Len(x) = Len(y)
       THEN /\ Draw(name, [ x |-> x, y |-> y ])
            /\ pc' = After(name)
       ELSE /\ page' = page
            /\ pc' = "error"
    /\ UNCHANGED << widget_year, widget_scope, rng, selected_year, selected_scope, val_ghg,
                    val_energy, df_trend, scores, rng0, first, changed, ref >>

RenderEnergy == RenderBar("fig_energy", EnergyX, EnergyY)

RenderWater == RenderBar("fig_water", WaterX, WaterY)

GenScores ==
    /\ pc = "gen_scores"
    /\ scores' = Normal(ScoreLoc, ScoreScale, ScoreSize, rng)
    /\ rng' = Advance(rng, ScoreSize)
    /\ pc' = After("gen_scores")
    /\ UNCHANGED << widget_year, widget_scope, selected_year, selected_scope, val_ghg,
                    val_energy, df_trend, page, rng0, first, changed, ref >>

RenderDist ==
    /\ pc = "fig_dist"
    /\ Draw("fig_dist", [ y |-> scores ])
    /\ pc' = After("fig_dist")
    /\ UNCHANGED << widget_year, widget_scope, rng, selected_year, selected_scope, val_ghg,
                    val_energy, df_trend, scores, rng0, first, changed, ref >>

RenderMinerals ==
    /\ pc = "fig_minerals"
    /\ Draw("fig_minerals", [ labels |-> MineralsLabels, values |-> MineralsValues,
                              annotation |-> MineralsAnnotation ])
    /\ pc' = After("fig_minerals")
    /\ UNCHANGED << widget_year, widget_scope, rng, selected_year, selected_scope, val_ghg,
                    val_energy, df_trend, scores, rng0, first, changed, ref >>

RenderGauge ==
    /\ pc = "fig_gauge"
    /\ Draw("fig_gauge", [ value |-> GaugeValue, axis_max |-> GaugeAxisMax ])
    /\ pc' = After("fig_gauge")
    /\ UNCHANGED << widget_year, widget_scope, rng, selected_year, selected_scope, val_ghg,
                    val_energy, df_trend, scores, rng0, first, changed, ref >>

\* go.Bar and go.Scatter take x and y as given
RenderInc ==
    /\ pc = "fig_inc"
    /\ Draw("fig_inc", << [ name |-> "Count", x |-> IncCountX, y |-> IncCountY ],
                          [ name |-> "Hours", x |-> IncHoursX, y |-> IncHoursY ] >>)
    /\ pc' = After("fig_inc")
    /\ UNCHANGED << widget_year, widget_scope, rng, selected_year, selected_scope, val_ghg,
                    val_energy, df_trend, scores, rng0, first, changed, ref >>

RenderSankey ==
    /\ pc = "fig_sankey"
    /\ Draw("fig_sankey", [ label |-> SankeyLabel, source |-> SankeySource,
                            target |-> SankeyTarget, value |-> SankeyValue ])
    /\ pc' = After("fig_sankey")
    /\ UNCHANGED << widget_year, widget_scope, rng, selected_year, selected_scope, val_ghg,
                    val_energy, df_trend, scores, rng0, first, changed, ref >>

\* the pass that has just completed, as a record
Snapshot ==
    [ set |-> TRUE, year |-> widget_year, scope |-> widget_scope, rng0 |-> rng0,
      first |-> first, page |-> page ]

\* A user interaction (a widget set to y and s, or a plain rerun when both are
\* unchanged): the framework stores the widget values and runs the script
\* again from its first line in a fresh namespace; the random source is the
\* process's and is not reset.
Interact(y, s, keep) ==
    /\ pc = "done"
    /\ widget_year' = y
    /\ widget_scope' = s
    /\ pc' = Order[1]
    /\ selected_year' = 0
    /\ selected_scope' = ""
    /\ val_ghg' = 0
    /\ val_energy' = 0
    /\ df_trend' = NoFrame
    /\ scores' = << >>
    /\ page' = EmptyPage
    /\ rng0' = rng
    /\ first' = FALSE
    /\ changed' = (changed \/ y # widget_year \/ s # widget_scope)
    /\ ref' = IF keep THEN Snapshot ELSE ref
    /\ UNCHANGED rng

Next ==
    \/ SelectYear
    \/ SelectScope
    \/ Header
    \/ GenKpi
    \/ RenderCards
    \/ GenTrend
    \/ RenderGhg
    \/ RenderEnergy
    \/ RenderWater
    \/ GenScores
    \/ RenderDist
    \/ RenderMinerals
    \/ RenderGauge
    \/ RenderInc
    \/ RenderSankey
    \/ \E y \in Range(YearOptions), s \in Range(ScopeOptions), keep \in BOOLEAN :
          Interact(y, s, keep)

Spec == Init /\ [][Next]_vars

\* the script's statements, without the interaction that starts the next pass
PassStep ==
    \/ SelectYear \/ SelectScope \/ Header \/ GenKpi \/ RenderCards \/ GenTrend
    \/ RenderGhg \/ RenderEnergy \/ RenderWater \/ GenScores \/ RenderDist
    \/ RenderMinerals \/ RenderGauge \/ RenderInc \/ RenderSankey

-----------------------------------------------------------------------------
(* Properties *)

Has(p, n) == n \in DOMAIN p

Done == pc = "done"

AllElements ==
    { "header", "cards", "fig_ghg", "fig_energy", "fig_water", "fig_dist",
      "fig_minerals", "fig_gauge", "fig_inc", "fig_sankey" }

\* the x/y Series a page holds: the trend, the two bar charts and the two
\* traces of the incident chart
SeriesOf(p) ==
    { p[n] : n \in DOMAIN p \cap { "fig_ghg", "fig_energy", "fig_water" } }
    \cup (IF Has(p, "fig_inc") THEN { p["fig_inc"][i] : i \in DOMAIN p["fig_inc"] } ELSE {})

\* the five cards of page p show the values documented for fiscal year y
IndicatorsOk(p, y) ==
    LET c == p["cards"] IN
    /\ Len(c) = 5
    /\ c[1].label = "Total GHG Emissions"
    /\ c[1].value[1] = (IF y = 2024 THEN << << 5, 4 >>, << 0, 0, 0 >> >>
                                    ELSE << << 4, 9 >>, << 5, 0, 0 >> >>)
    /\ ParseThousands(c[1].value[1]) = (IF y = 2024 THEN 54000 ELSE 49500)
    /\ c[2].label = "Energy Intensity"
    /\ ParseInt(c[2].value[1]) = (IF y = 2024 THEN 120 ELSE 115)
    /\ c[3] = Metric("Water Withdrawal", << "1.5M m3" >>, "+1.2%", "inverse")
    /\ c[4].label = "ESRS Compliance" /\ ParseInt(c[4].value[1]) = 88 /\ c[4].delta = "+12%"
    /\ c[5].label = "Supplier ESG Score" /\ ParseInt(c[5].value[1]) = 74 /\ c[5].delta = "+2.5"
    /\ c[1].delta = "-8.5%"
    /\ c[2].delta = "-4.2%"

LengthsOk(p) == \A s \in SeriesOf(p) : Len(s.x) = Len(s.y)

CountsOk(p) ==
    /\ Has(p, "fig_ghg") => Len(p["fig_ghg"].x) = 12 /\ Len(p["fig_ghg"].y) = 12
    /\ Has(p, "fig_dist") => Len(p["fig_dist"].y) = 200

InPercentRange(v) == 0 <= v /\ v <= 100

PercentagesOk(p) ==
    /\ Has(p, "cards") => InPercentRange(ParseInt(p["cards"][4].value[1]))
    /\ Has(p, "fig_minerals") =>
          /\ \A i \in DOMAIN p["fig_minerals"].values : p["fig_minerals"].values[i] >= 0
          /\ InPercentRange(PieShare(p["fig_minerals"].values, 1))
          /\ ParseInt(p["fig_minerals"].annotation[1]) = PieShare(p["fig_minerals"].values, 1)
    /\ Has(p, "fig_gauge") => InPercentRange(p["fig_gauge"].value)

\* C1: whenever the cards are on the page, the emissions total is 54000 and
\* the energy intensity 120 if the selected year is 2024, and 49500 and 115
\* otherwise; the other three cards and all five deltas are the same fixed
\* values whatever the year and the scope.
C1_YearConditionalIndicators ==
    Has(page, "cards") =>
        /\ selected_year \in { 2025, 2024, 2023 }
        /\ val_ghg = (IF selected_year = 2024 THEN 54000 ELSE 49500)
        /\ val_energy = (IF selected_year = 2024 THEN 120 ELSE 115)
        /\ IndicatorsOk(page, selected_year)

C1_Witness ==
    /\ Done
    /\ selected_year = 2024
    /\ selected_scope = "EMEA"
    /\ ParseThousands(page["cards"][1].value[1]) = 54000
    /\ ParseInt(page["cards"][2].value[1]) = 120

\* sum of the link values of sankey s entering (leaving) node n
RECURSIVE FlowSum(_, _, _, _)
FlowSum(ends, value, n, i) ==
    IF i = 0 THEN 0
    ELSE (IF ends[i] = n THEN value[i] ELSE 0) + FlowSum(ends, value, n, i - 1)

FlowIn(s, n) == FlowSum(s.target, s.value, n, Len(s.value))

FlowOut(s, n) == FlowSum(s.source, s.value, n, Len(s.value))

Intermediate(s) ==
    { n \in 0..(Len(s.label) - 1) : n \in Range(s.target) /\ n \in Range(s.source) }

\* C2: in the Sankey data on the page, the intermediate nodes are
\* Manufacturing, Distribution and Use Phase; at each of them the outgoing
\* link values sum to no more than the incoming ones, and Manufacturing
\* receives 100 and sends 85 + 15 = 100.
C2_SankeyConservation ==
    Has(page, "fig_sankey") =>
        LET s == page["fig_sankey"] IN
        /\ { s.label[n + 1] : n \in Intermediate(s) }
               = { "Manufacturing", "Distribution", "Use Phase" }
        /\ \A n \in Intermediate(s) : FlowOut(s, n) <= FlowIn(s, n)
        /\ FlowIn(s, 1) = 100
        /\ FlowOut(s, 1) = 100

C2_Witness ==
    /\ Has(page, "fig_sankey")
    /\ page["fig_sankey"].label[2] = "Manufacturing"
    /\ FlowOut(page["fig_sankey"], 1) = 85 + 15
    /\ FlowOut(page["fig_sankey"], 3) = 85

\* C3: every Series on the page (trend, per-facility energy, per-region water,
\* incident counts, response hours), and the trend frame once it is built,
\* has an x sequence and a y sequence of the same length.
C3_SeriesLengthsAgree ==
    /\ LengthsOk(page)
    /\ Len(df_trend.Date) = Len(df_trend.Emissions)

C3_Witness ==
    /\ Done
    /\ Cardinality(SeriesOf(page)) = 5
    /\ \A s \in SeriesOf(page) : Len(s.x) >= 3
    /\ selected_year = 2023
    /\ selected_scope = "APAC"

\* C4: once generated, the monthly trend has exactly 12 points and the score
\* sample exactly 200, whatever the selection and the state of the random source.
C4_SampleCounts ==
    /\ CountsOk(page)
    /\ Index(pc) > Index("gen_trend") =>
          Len(df_trend.Date) = 12 /\ Len(df_trend.Emissions) = 12
    /\ Index(pc) > Index("gen_scores") => Len(scores) = 200

C4_Witness ==
    /\ Done
    /\ ~first
    /\ Len(page["fig_ghg"].y) = 12
    /\ Len(page["fig_dist"].y) = 200
    /\ page["fig_ghg"].x[2] = << 2024, 2, 29 >>

\* C5: the compliance percentage on its card, the compliant share of the
\* conflict-minerals pie and the value of the compliance gauge all lie
\* between 0 and 100.
C5_PercentagesInRange == PercentagesOk(page)

C5_Witness ==
    /\ Done
    /\ ParseInt(page["cards"][4].value[1]) = 88
    /\ PieShare(page["fig_minerals"].values, 1) = 98
    /\ page["fig_gauge"].value = 85
    /\ selected_year = 2023

\* the shape invariants of a completed pass with page p for fiscal year y
ShapeOk(p, y) ==
    /\ LengthsOk(p)
    /\ IndicatorsOk(p, y)
    /\ PercentagesOk(p)
    /\ CountsOk(p)
    /\ Has(p, "fig_ghg") /\ Has(p, "fig_dist")

SameInputsAsRef ==
    /\ Done
    /\ ref.set
    /\ ref.year = widget_year
    /\ ref.scope = widget_scope

\* C6: of two completed passes run with the same fiscal year and scope, both
\* satisfy the shape invariants (equal x/y lengths, year-conditional
\* indicator values, percentages within 0..100, 12 and 200 samples), whether
\* or not their sampled values agree.
C6_RerunKeepsShape ==
    SameInputsAsRef => ShapeOk(page, widget_year) /\ ShapeOk(ref.page, ref.year)

\* two passes with the same inputs whose samples differ
C6_Witness ==
    /\ SameInputsAsRef
    /\ page["fig_ghg"].y # ref.page["fig_ghg"].y
    /\ page["fig_dist"].y # ref.page["fig_dist"].y

\* C7: the script never stops in an error; until the pass is complete a next
\* statement can always be executed, and a complete pass has drawn every
\* element: the five named cards and the six named Series, none empty.
C7_PassCompletes ==
    /\ pc \in Range(Order)
    /\ ~Done => ENABLED PassStep
    /\ Done =>
          /\ DOMAIN page = AllElements
          /\ [ i \in 1..5 |-> page["cards"][i].label ]
                = << "Total GHG Emissions", "Energy Intensity", "Water Withdrawal",
                     "ESRS Compliance", "Supplier ESG Score" >>
          /\ Cardinality(SeriesOf(page)) = 5
          /\ \A s \in SeriesOf(page) : s.x # << >> /\ s.y # << >>
          /\ page["fig_dist"].y # << >>

C7_Witness ==
    /\ Done
    /\ DOMAIN page = AllElements
    /\ selected_year = 2023
    /\ selected_scope = "North America"
    /\ ~first

\* what a page shows apart from the sampled values
Fixed(p) ==
    [ n \in DOMAIN p |->
        IF n = "fig_ghg" THEN p[n].x
        ELSE IF n = "fig_dist" THEN Len(p[n].y)
        ELSE p[n] ]

\* C8: a completed pass shows the same header, cards and fixed Series as any
\* other completed pass run with the same fiscal year and scope, whatever was
\* selected, and however many passes ran, before either of them.
C8_NoCarriedState ==
    SameInputsAsRef => Fixed(page) = Fixed(ref.page)

\* the current pass compared with the first pass of the process, after other
\* selections were made in between
C8_Witness ==
    /\ SameInputsAsRef
    /\ ref.first
    /\ ~first
    /\ changed
    /\ rng0 # ref.rng0

Unset == selected_year = 0 /\ selected_scope = "" /\ val_ghg = 0 /\ val_energy = 0
         /\ df_trend = NoFrame /\ scores = << >> /\ page = EmptyPage

AnyGenerated == val_ghg # 0 \/ val_energy # 0 \/ df_trend # NoFrame \/ scores # << >>

AllGenerated == val_ghg # 0 /\ val_energy # 0 /\ df_trend # NoFrame /\ scores # << >>

\* C9 as stated: once any card or chart is on the page, every Indicator and
\* Series value has been generated.
C9_GenerateAllBeforeRender ==
    (DOMAIN page \ { "header" }) # {} => AllGenerated

\* C9 as amended: a pass starts from nothing, both filter values are read
\* before anything is generated or drawn, every value is generated before the
\* element that shows it is drawn, and the elements drawn are exactly those
\* of the statements already passed, each once, in source order.
C9_LinearInterleaved ==
    /\ pc = "select_year" => Unset
    /\ (AnyGenerated \/ page # EmptyPage) => selected_year # 0 /\ selected_scope # ""
    /\ Has(page, "cards") => val_ghg # 0 /\ val_energy # 0
    /\ Has(page, "fig_ghg") => df_trend # NoFrame
    /\ Has(page, "fig_dist") => scores # << >>
    /\ pc \in Range(Order)
    /\ DOMAIN page = { n \in AllElements :
                          IF n = "header" THEN Index(pc) > Index("header")
                          ELSE Index(pc) > Index(n) }

\* the cards are on the page while the trend is not generated yet
C9_Witness ==
    /\ pc = "gen_trend"
    /\ Has(page, "cards")
    /\ df_trend = NoFrame
    /\ scores = << >>
    /\ ~first

\* C10: two completed passes with the same fiscal year and the same state of
\* the random source show the same cards, Series and Sankey data whatever
\* their scopes; only the header text differs with the scope.
C10_ScopeIndependent ==
    (Done /\ ref.set /\ ref.year = widget_year /\ ref.rng0 = rng0) =>
        /\ DOMAIN page = DOMAIN ref.page
        /\ \A n \in DOMAIN page \ { "header" } : page[n] = ref.page[n]
        /\ page["header"].year = ref.page["header"].year
        /\ page["header"].scope = widget_scope
        /\ ref.page["header"].scope = ref.scope

C10_Witness ==
    /\ Done
    /\ ref.set
    /\ ref.year = widget_year
    /\ ref.rng0 = rng0
    /\ ref.scope # widget_scope
    /\ page["fig_dist"] = ref.page["fig_dist"]

====
